---- MODULE Spec2Model ----
(***************************************************************************)
(* MessageInput (src/src/components/MessageInput.jsx): the chat input      *)
(* widget.  The state is the component's React state and refs, the         *)
(* browser resources it holds (timers, object URLs, outstanding upload     *)
(* calls) and what its collaborators have observed (callbacks, alerts).    *)
(* One action per event handler, timer callback, promise continuation and  *)
(* lifecycle step; each action includes the re-render the handler causes   *)
(* and the effect cleanup that re-render runs.                             *)
(*                                                                         *)
(* Time is idealised: a timer callback runs exactly at its deadline, so    *)
(* no other event is handled while a timer is due.                         *)
(***************************************************************************)
EXTENDS Integers, Sequences, FiniteSets, TLC

\* ------------------------------------------------------------------ bounds
MaxKeys == 2
MaxPicks == 2
MaxSubmits == 2

\* ------------------------------------------------------- program constants
TypingDelay == 1000
MaxFileSize == 5 * 1024 * 1024
\* the step by which time advances
Quantum == TypingDelay \div 2
\* the limits as the specification words them: one second in ms, 5 MiB in bytes
OneSecond == 1000
FiveMiB == 5242880

SizeMessage == "File size must be less than 5MB"
TypeMessage == "Please select an image file"
UploadFailedMessage == "Upload failed"
GenericMessage == "Failed to upload image. Please check your Cloudinary configuration in the server .env file."

NoFile == [name |-> "none", size |-> 0, type |-> <<>>]
NoImage == 0

\* ------------------------------------------------------------ input values
\* Strings are sequences of one-character strings, so that trim and
\* startsWith are computed and not assumed.
WhiteSpace == {" ", "\t"}
Texts ==
  { <<>>, <<" ">>, <<" ", "h", " ", "i", " ">> }

ImagePng == <<"i", "m", "a", "g", "e", "/", "p", "n", "g">>
TextPlain == <<"t", "e", "x", "t", "/", "p", "l", "a", "i", "n">>
ImageBare == <<"i", "m", "a", "g", "e">>
ImagePrefix == <<"i", "m", "a", "g", "e", "/">>

File(name, size, type) == [name |-> name, size |-> size, type |-> type]
FileA == File("A", MaxFileSize, ImagePng)
FileB == File("B", MaxFileSize, ImagePng)
Files ==
  { FileA, FileB,
    File("C", MaxFileSize + 1, ImagePng),
    File("D", MaxFileSize + 1, TextPlain),
    File("E", MaxFileSize, TextPlain),
    File("F", MaxFileSize, ImageBare) }

\* An optional value (a property that may be missing) is <<>> or <<v>>.
None == <<>>
Some(v) == <<v>>

\* What uploadService.uploadImage can settle with: a resolved response
\* {success, data: {url}, message} with any part missing, or a rejection
\* with an error {message, response: {data: {message}}}.
GoodUrl == "http://x/y.png"
OtherUrl == "http://x/z.png"
Responses ==
  { [success |-> Some(TRUE), data |-> Some([url |-> Some(GoodUrl)]), message |-> None],
    [success |-> Some(TRUE), data |-> Some([url |-> Some("")]), message |-> Some("")],
    [success |-> Some(TRUE), data |-> None, message |-> Some("no data")],
    [success |-> Some(FALSE), data |-> Some([url |-> Some(OtherUrl)]), message |-> Some("denied")],
    [success |-> None, data |-> Some([url |-> Some(OtherUrl)]), message |-> None] }
Errors ==
  { [message |-> "Request failed",
     response |-> Some([data |-> Some([message |-> Some("quota exceeded")])])],
    [message |-> "Network Error", response |-> Some([data |-> None])],
    [message |-> "Network Error", response |-> None],
    [message |-> "", response |-> None] }
Outcomes ==
  [kind : {"resolve"}, value : Responses] \cup [kind : {"reject"}, value : Errors]

\* ------------------------------------------------------------ pure helpers
\* JavaScript truthiness of an optional string / of an optional boolean.
TruthyStr(o) == o # None /\ o[1] # ""
TruthyBool(o) == o # None /\ o[1]

RECURSIVE TrimStart(_)
TrimStart(s) ==
  IF s # <<>> /\ Head(s) \in WhiteSpace THEN TrimStart(Tail(s)) ELSE s

RECURSIVE TrimEnd(_)
TrimEnd(s) ==
  IF s # <<>> /\ s[Len(s)] \in WhiteSpace
  THEN TrimEnd(SubSeq(s, 1, Len(s) - 1))
  ELSE s

Trim(s) == TrimEnd(TrimStart(s))

StartsWith(s, prefix) ==
  /\ Len(s) >= Len(prefix)
  /\ SubSeq(s, 1, Len(prefix)) = prefix


\* faulty variant: the success flag is not tested
ResponseOkWithoutFlag(r) ==
  /\ r.data # None
  /\ TruthyStr(r.data[1].url)

\* The condition of line 65: response.success && response.data && response.data.url
ResponseOk(r) ==
  /\ TruthyBool(r.success)
  /\ r.data # None
  /\ TruthyStr(r.data[1].url)

\* new Error(response.message || 'Upload failed'), line 69
ThrownError(r) ==
  [message |-> IF TruthyStr(r.message) THEN r.message[1] ELSE UploadFailedMessage,
   response |-> None]

\* error.response?.data?.message
NestedMessage(e) ==
  IF e.response # None /\ e.response[1].data # None
  THEN e.response[1].data[1].message
  ELSE None

\* faulty variant: the error's own message is preferred to the nested one
ErrorMessageOwnFirst(e) ==
  IF e.message # "" THEN e.message
  ELSE IF TruthyStr(NestedMessage(e)) THEN NestedMessage(e)[1]
  ELSE GenericMessage

\* lines 73-75: nested message || error.message || generic text
ErrorMessage(e) ==
  IF TruthyStr(NestedMessage(e)) THEN NestedMessage(e)[1]
  ELSE IF e.message # "" THEN e.message
  ELSE GenericMessage

\* ------------------------------------------------------------------- state
VARIABLES
  props,             \* which optional callbacks the parent supplied
  mounted,           \* the component is in the tree
  text,              \* useState('')
  uploading,         \* useState(false)
  selectedImage,     \* useState(null): the preview object URL
  selectedFile,      \* useState(null): the picked File
  fileInputValue,    \* fileInputRef.current.value
  typingTimeoutRef,  \* typingTimeoutRef.current: a timer id, 0 for null
  timers,            \* the browser's pending timeouts: [id, remaining]
  pending,           \* outstanding uploadImage calls, each with the closure
                     \* of the handleSend that awaits it
  urls,              \* object URLs ever created: [file, revoked]
  sent,              \* sent[a]: how often handleSend call a called onSendMessage
  delivered,         \* the payloads onSendMessage got in the last step
  typingCalls,       \* how often onTyping was called
  keys,              \* text-change events so far
  attempts,          \* handleSend calls so far
  sinceKey,          \* time since the last text change, up to SinceCap
  burstKeys,         \* text changes of the current burst, each less than
                     \* one second after the one before: 0, 1, or 2 for more
  burstStops,        \* onStopTyping calls since the current burst began
  alerted,           \* alert() messages of the last step
  last               \* the last step: [op, arg, file]

vars ==
  << props, mounted, text, uploading, selectedImage, selectedFile,
     fileInputValue, typingTimeoutRef, timers, pending, urls, sent, delivered,
     typingCalls, keys, attempts, sinceKey, burstKeys, burstStops,
     alerted, last >>

ChatId == "chat-1"
ReceiverId == "user-2"
SinceCap == OneSecond

\* the parent supplies all three callbacks, or none of them
PropsChoices ==
  { [onSendMessage |-> b, onTyping |-> b, onStopTyping |-> b] : b \in BOOLEAN }

Init ==
  /\ props \in PropsChoices
  /\ mounted = TRUE
  /\ text = <<>>
  /\ uploading = FALSE
  /\ selectedImage = NoImage
  /\ selectedFile = NoFile
  /\ fileInputValue = ""
  /\ typingTimeoutRef = 0
  /\ timers = {}
  /\ pending = {}
  /\ urls = <<>>
  /\ sent = <<>>
  /\ delivered = <<>>
  /\ typingCalls = 0
  /\ keys = 0
  /\ attempts = 0
  /\ sinceKey = SinceCap
  /\ burstKeys = 0
  /\ burstStops = 0
  /\ alerted = <<>>
  /\ last = [op |-> "init", arg |-> 0, file |-> NoFile]

\* A timer is due: its callback runs before anything else.
TimerDue == \E t \in timers : t.remaining = 0
Idle == ~TimerDue

\* A state setter: a no-op once the component is unmounted.
SetState(new, old) == IF mounted THEN new ELSE old

\* ---------------------------------------------------- typing notification
\* faulty variant: the earlier timer is left running
ClearTimeoutNot(ts, id) == ts

\* clearTimeout(id): lines 43-45
ClearTimeout(ts, id) == { t \in ts : t.id # id }

\* setTimeout(cb, delay): line 48
SetTimeout(ts, id, delay) == ts \cup { [id |-> id, remaining |-> delay] }

\* faulty variant: no "typing started" while a timer is still pending
OnTypingOncePerBurst(n) == IF props.onTyping /\ timers = {} THEN n + 1 ELSE n

\* lines 38-40: onTyping, when supplied, is called; n counts its calls
OnTyping(n) == IF props.onTyping THEN n + 1 ELSE n

\* handleTextChange, lines 33-55
HandleTextChange(v) ==
  /\ text' = v
  /\ typingCalls' = OnTyping(typingCalls)
  /\ timers' = SetTimeout(
                 IF typingTimeoutRef # 0
                 THEN ClearTimeout(timers, typingTimeoutRef)
                 ELSE timers,
                 keys + 1, TypingDelay)
  /\ typingTimeoutRef' = keys + 1
  /\ keys' = keys + 1
  /\ burstKeys' = IF keys = 0 \/ sinceKey >= OneSecond THEN 1 ELSE 2
  /\ burstStops' = IF keys = 0 \/ sinceKey >= OneSecond THEN 0 ELSE burstStops
  /\ sinceKey' = 0
  /\ alerted' = <<>>
  /\ delivered' = <<>>
  /\ last' = [op |-> "textChange", arg |-> 0, file |-> NoFile]
  /\ UNCHANGED << props, mounted, uploading, selectedImage, selectedFile,
                  fileInputValue, pending, urls, sent, attempts >>

\* the user edits the text input (line 229)
TextChange ==
  /\ mounted /\ Idle
  /\ keys < MaxKeys
  /\ \E v \in Texts : HandleTextChange(v)

\* the timeout callback, lines 48-52
TypingTimeout ==
  \E t \in timers :
    /\ t.remaining = 0
    /\ timers' = timers \ {t}
    /\ burstStops' = IF props.onStopTyping THEN burstStops + 1 ELSE burstStops
    /\ alerted' = <<>>
    /\ delivered' = <<>>
    /\ last' = [op |-> "typingTimeout", arg |-> 0, file |-> NoFile]
    /\ UNCHANGED << props, mounted, text, uploading, selectedImage, selectedFile,
                    fileInputValue, typingTimeoutRef, pending, urls, sent,
                    typingCalls, keys, attempts, sinceKey, burstKeys >>

\* time passes
Tick ==
  /\ Idle
  /\ timers # {} \/ sinceKey < SinceCap
  /\ timers' = { [t EXCEPT !.remaining = IF @ > Quantum THEN @ - Quantum ELSE 0] : t \in timers }
  /\ sinceKey' = IF sinceKey + Quantum < SinceCap THEN sinceKey + Quantum ELSE SinceCap
  /\ alerted' = <<>>
  /\ delivered' = <<>>
  /\ last' = [op |-> "tick", arg |-> 0, file |-> NoFile]
  /\ UNCHANGED << props, mounted, text, uploading, selectedImage, selectedFile,
                  fileInputValue, typingTimeoutRef, pending, urls, sent,
                  typingCalls, keys, attempts, burstKeys, burstStops >>

\* ----------------------------------------------------------- object URLs
\* URL.createObjectURL(file): a fresh handle, line 168
CreateObjectURL(us, file) == Append(us, [file |-> file, revoked |-> 0])

\* URL.revokeObjectURL(h)
Revoke(us, h) == [us EXCEPT ![h].revoked = @ + 1]

\* the cleanup function of the effect, lines 133-137
Cleanup(us, image) == IF image # NoImage THEN Revoke(us, image) ELSE us

\* faulty variant: no cleanup when the preview changes
EffectCleanupNot(us, old, new) == us

\* useEffect(..., [selectedImage]), lines 132-138: a render in which
\* selectedImage changed runs the cleanup of the previous render's effect.
EffectCleanup(us, old, new) == IF old # new THEN Cleanup(us, old) ELSE us

\* --------------------------------------------------------- image selection
\* faulty variant: the type is validated before the size
ValidateTypeFirst(file) ==
  IF ~StartsWith(file.type, ImagePrefix) THEN TypeMessage
  ELSE IF file.size > MaxFileSize THEN SizeMessage
  ELSE ""

\* faulty variant: the type is not validated
ValidateSizeOnly(file) ==
  IF file.size > MaxFileSize THEN SizeMessage ELSE ""

\* faulty variant: a file of exactly the limit is rejected
ValidateBelowLimit(file) ==
  IF file.size >= MaxFileSize THEN SizeMessage
  ELSE IF ~StartsWith(file.type, ImagePrefix) THEN TypeMessage
  ELSE ""

\* lines 146-162: the message of the first failed validation, "" if none
Validate(file) ==
  IF file.size > MaxFileSize THEN SizeMessage
  ELSE IF ~StartsWith(file.type, ImagePrefix) THEN TypeMessage
  ELSE ""

\* handleImageSelect, lines 141-172; file = NoFile is e.target.files[0]
\* being undefined.
HandleImageSelect(file) ==
  /\ last' = [op |-> "imageSelect", arg |-> 0, file |-> file]
  /\ delivered' = <<>>
  /\ IF file = NoFile
     THEN /\ alerted' = <<>>
          /\ UNCHANGED << fileInputValue, selectedFile, selectedImage, urls >>
     ELSE IF Validate(file) # ""
     THEN /\ alerted' = << Validate(file) >>
          /\ fileInputValue' = ""
          /\ UNCHANGED << selectedFile, selectedImage, urls >>
     ELSE /\ alerted' = <<>>
          /\ fileInputValue' = file.name
          /\ selectedFile' = file
          /\ selectedImage' = Len(urls) + 1
          /\ urls' = EffectCleanup(CreateObjectURL(urls, file),
                                   selectedImage, Len(urls) + 1)
  /\ UNCHANGED << props, mounted, text, uploading, typingTimeoutRef, timers,
                  pending, sent, typingCalls, keys, attempts, sinceKey,
                  burstKeys, burstStops >>

\* the picker button is disabled while uploading, line 198
PickerDisabled == uploading

\* the user picks a file (or cancels) in the dialog the picker button opens
ImageSelect ==
  /\ mounted /\ Idle
  /\ ~PickerDisabled
  /\ Len(urls) < MaxPicks
  /\ \E f \in Files \cup {NoFile} : HandleImageSelect(f)

\* faulty variant: the selected file is kept when the preview is removed
HandleRemoveImageKeepsFile ==
  /\ urls' = EffectCleanup(Cleanup(urls, selectedImage), selectedImage, NoImage)
  /\ selectedImage' = NoImage
  /\ fileInputValue' = ""
  /\ alerted' = <<>>
  /\ delivered' = <<>>
  /\ last' = [op |-> "removeImage", arg |-> 0, file |-> NoFile]
  /\ UNCHANGED << props, mounted, text, uploading, typingTimeoutRef, timers,
                  pending, sent, typingCalls, keys, attempts, sinceKey,
                  burstKeys, burstStops, selectedFile >>

\* handleRemoveImage, lines 120-129, and the render it causes
HandleRemoveImage ==
  /\ urls' = EffectCleanup(Cleanup(urls, selectedImage), selectedImage, NoImage)
  /\ selectedImage' = NoImage
  /\ selectedFile' = NoFile
  /\ fileInputValue' = ""
  /\ alerted' = <<>>
  /\ delivered' = <<>>
  /\ last' = [op |-> "removeImage", arg |-> 0, file |-> NoFile]
  /\ UNCHANGED << props, mounted, text, uploading, typingTimeoutRef, timers,
                  pending, sent, typingCalls, keys, attempts, sinceKey,
                  burstKeys, burstStops >>

\* the remove button exists only with a preview, lines 177-190
RemoveImage ==
  /\ mounted /\ Idle
  /\ selectedImage # NoImage
  /\ HandleRemoveImage

\* ------------------------------------------------------------------- send
\* faulty variant: the text is not trimmed before the test
EmptySendUntrimmed(messageText, mediaURL) == messageText = <<>> /\ mediaURL = ""

\* line 84: nothing to send
EmptySend(messageText, mediaURL) == Trim(messageText) = <<>> /\ mediaURL = ""

\* faulty variant: the media type is not set
MessageDataNoType(messageText, mediaURL, mediaType) ==
  [chatId |-> ChatId, receiverId |-> ReceiverId, text |-> Trim(messageText),
   mediaURL |-> mediaURL, mediaType |-> ""]

\* lines 86-92
MessageData(messageText, mediaURL, mediaType) ==
  [chatId |-> ChatId, receiverId |-> ReceiverId, text |-> Trim(messageText),
   mediaURL |-> mediaURL, mediaType |-> mediaType]

\* lines 84-105 of handleSend and the render they cause; sent0 is the
\* call count with the entry of this handleSend call in place
Deliver(id, sent0, messageText, mediaURL, mediaType) ==
  IF EmptySend(messageText, mediaURL)
  THEN /\ sent' = sent0
       /\ delivered' = <<>>
       /\ UNCHANGED << text, selectedImage, selectedFile, fileInputValue, urls >>
  ELSE /\ sent' = IF props.onSendMessage
                  THEN [sent0 EXCEPT ![id] = @ + 1]
                  ELSE sent0
       /\ delivered' = IF props.onSendMessage
                       THEN << MessageData(messageText, mediaURL, mediaType) >>
                       ELSE <<>>
       /\ text' = SetState(<<>>, text)
       /\ selectedImage' = SetState(NoImage, selectedImage)
       /\ selectedFile' = SetState(NoFile, selectedFile)
       /\ fileInputValue' = SetState("", fileInputValue)
       /\ urls' = IF mounted THEN EffectCleanup(urls, selectedImage, NoImage) ELSE urls

\* lines 61-64: the upload starts and handleSend waits for it
StartUpload(id, messageText) ==
  /\ uploading' = TRUE
  /\ pending' = pending \cup { [id |-> id, messageText |-> messageText, file |-> selectedFile] }
  /\ sent' = Append(sent, 0)
  /\ delivered' = <<>>
  /\ UNCHANGED << text, selectedImage, selectedFile, fileInputValue, urls >>

\* handleSend up to its first await, lines 58-108
HandleSend(messageText, mediaURL, mediaType) ==
  /\ attempts' = attempts + 1
  /\ alerted' = <<>>
  /\ last' = [op |-> "submit", arg |-> attempts + 1, file |-> NoFile]
  /\ IF selectedFile # NoFile /\ mediaURL = ""
     THEN StartUpload(attempts + 1, messageText)
     ELSE /\ Deliver(attempts + 1, Append(sent, 0), messageText, mediaURL, mediaType)
          /\ UNCHANGED << uploading, pending >>
  /\ UNCHANGED << props, mounted, typingTimeoutRef, timers, typingCalls, keys,
                  sinceKey, burstKeys, burstStops >>

\* handleSubmit, lines 111-117
HandleSubmit == HandleSend(text, "", "")

\* faulty variant: the button stays enabled while uploading
SubmitDisabledIgnoresUploading == Trim(text) = <<>> /\ selectedFile = NoFile

\* the submit button's disabled attribute, line 235
SubmitDisabled == (Trim(text) = <<>> /\ selectedFile = NoFile) \/ uploading

\* the user submits the form
Submit ==
  /\ mounted /\ Idle
  /\ ~SubmitDisabled
  /\ attempts < MaxSubmits
  /\ HandleSubmit

\* faulty variant: the response's success flag is not looked at
UploadErrorIgnoresSuccess(o) ==
  IF o.kind = "reject" THEN Some(o.value)
  ELSE IF o.value.data # None /\ TruthyStr(o.value.data[1].url) THEN None
  ELSE Some(ThrownError(o.value))

\* The error the try block ends with, lines 64-70: the rejection, the error
\* thrown for a response that is not ok, or none.
UploadError(o) ==
  IF o.kind = "reject" THEN Some(o.value)
  ELSE IF ResponseOk(o.value) THEN None
  ELSE Some(ThrownError(o.value))

\* faulty variant: the catch block clears the draft as a delivery does
UploadFailedClears(e) ==
  /\ alerted' = << ErrorMessage(e) >>
  /\ uploading' = SetState(FALSE, uploading)
  /\ delivered' = <<>>
  /\ text' = SetState(<<>>, text)
  /\ selectedImage' = SetState(NoImage, selectedImage)
  /\ selectedFile' = SetState(NoFile, selectedFile)
  /\ fileInputValue' = SetState("", fileInputValue)
  /\ urls' = IF mounted THEN EffectCleanup(urls, selectedImage, NoImage) ELSE urls
  /\ UNCHANGED sent

\* the catch block, lines 71-78, and the finally block
UploadFailed(e) ==
  /\ alerted' = << ErrorMessage(e) >>
  /\ uploading' = SetState(FALSE, uploading)
  /\ delivered' = <<>>
  /\ UNCHANGED << sent, text, selectedImage, selectedFile, fileInputValue, urls >>

\* faulty variant: uploading is not cleared
FinallyUploadingNot(u) == u

\* the finally block, lines 79-81
FinallyUploading(u) == SetState(FALSE, u)

\* handleSend from the await on, lines 64-105: the upload call of attempt p
\* settles with outcome o
HandleUploadSettled(p, o) ==
  /\ pending' = pending \ {p}
  /\ last' = [op |-> "uploadSettled", arg |-> p.id, file |-> p.file]
  /\ IF UploadError(o) # None
     THEN UploadFailed(UploadError(o)[1])
     ELSE /\ alerted' = <<>>
          /\ uploading' = FinallyUploading(uploading)
          /\ Deliver(p.id, sent, p.messageText, o.value.data[1].url[1], "image")
  /\ UNCHANGED << props, mounted, typingTimeoutRef, timers, typingCalls, keys,
                  attempts, sinceKey, burstKeys, burstStops >>

UploadSettles ==
  /\ Idle
  /\ \E p \in pending : \E o \in Outcomes : HandleUploadSettled(p, o)

\* --------------------------------------------------------------- teardown
\* React unmounts the component: the effect cleanup runs, lines 132-138,
\* and the component's state and its ref to the file input are discarded
\* (they read as initial from here on; state setters no longer act).
\* Nothing clears typingTimeoutRef's timer, and an outstanding upload call
\* keeps its handleSend closure.
Unmount ==
  /\ mounted /\ Idle
  /\ mounted' = FALSE
  /\ urls' = Cleanup(urls, selectedImage)
  /\ text' = <<>>
  /\ uploading' = FALSE
  /\ selectedImage' = NoImage
  /\ selectedFile' = NoFile
  /\ fileInputValue' = ""
  /\ alerted' = <<>>
  /\ delivered' = <<>>
  /\ last' = [op |-> "unmount", arg |-> 0, file |-> NoFile]
  /\ UNCHANGED << props, typingTimeoutRef, timers, pending, sent,
                  typingCalls, keys, attempts, sinceKey, burstKeys, burstStops >>

\* ---------------------------------------------------------- specifications
\* The component as rendered: events reach the handlers only through
\* enabled controls.
Next ==
  \/ TextChange
  \/ TypingTimeout
  \/ Tick
  \/ ImageSelect
  \/ RemoveImage
  \/ Submit
  \/ UploadSettles
  \/ Unmount

Spec == Init /\ [][Next]_vars

\* The form's submit event can also be dispatched with nothing to send,
\* where the submit button is disabled: form.requestSubmit(), or a test
\* firing the event.
EmptySubmit ==
  /\ mounted /\ Idle
  /\ Trim(text) = <<>> /\ selectedFile = NoFile
  /\ attempts < MaxSubmits
  /\ HandleSubmit

NextForm ==
  \/ Next
  \/ EmptySubmit

SpecForm == Init /\ [][NextForm]_vars

\* ------------------------------------------------------------------ claims
Reject(e) == [kind |-> "reject", value |-> e]
Resolve(r) == [kind |-> "resolve", value |-> r]
IsImageType(type) == StartsWith(type, ImagePrefix)
Handles == 1 .. Len(urls)

\* C1: in a burst of text changes, each less than one second after the one
\* before, no onStopTyping call happens before the burst's last change is
\* one second old, exactly one has happened once it is, that call comes
\* when the last change is exactly one second old, and no second timer is
\* ever pending.
C1_OneStopPerBurst ==
  props.onStopTyping =>
    /\ Cardinality(timers) <= 1
    /\ burstStops <= 1
    /\ (last.op = "typingTimeout" => sinceKey = OneSecond /\ burstStops = 1)
    /\ (keys > 0 /\ sinceKey < OneSecond => burstStops = 0)
    /\ (keys > 0 /\ sinceKey >= OneSecond /\ Idle => burstStops = 1)

C1_Witness ==
  /\ props.onStopTyping
  /\ burstKeys = 2
  /\ last.op = "typingTimeout"
  /\ burstStops = 1
  /\ timers = {}

\* C2: when the upload call of a send rejects, the step that handles the
\* rejection leaves the selected file, its preview (not revoked) and the
\* text as they were, shows an alert, does not call onSendMessage and
\* starts no upload call.
C2_RejectKeepsDraft ==
  [][ \A p \in pending : \A e \in Errors :
        HandleUploadSettled(p, Reject(e)) =>
          /\ UNCHANGED << text, selectedFile, selectedImage, urls >>
          /\ Len(alerted') = 1
          /\ sent' = sent
          /\ delivered' = <<>>
          /\ pending' = pending \ {p} ]_vars

C2_Witness ==
  /\ mounted
  /\ last.op = "uploadSettled"
  /\ alerted = << "Network Error" >>
  /\ selectedFile = FileA /\ last.file = FileA
  /\ selectedImage # NoImage /\ urls[selectedImage].revoked = 0
  /\ text = <<" ", "h", " ", "i", " ">>
  /\ sent[last.arg] = 0
  /\ pending = {}

\* C3: when the upload call of a send resolves with success true and a
\* non-empty data.url U, onSendMessage is called once, with chatId,
\* receiverId, the trimmed text that was submitted, mediaURL U and
\* mediaType "image"; afterwards (the component still mounted) the text is
\* empty and no file and no preview are selected.
C3_UploadedSendClearsDraft ==
  [][ \A p \in pending : \A r \in Responses :
        ( /\ props.onSendMessage
          /\ r.success = Some(TRUE) /\ r.data # None
          /\ r.data[1].url # None /\ r.data[1].url # Some("")
          /\ HandleUploadSettled(p, Resolve(r)) ) =>
          /\ delivered' = << [chatId |-> ChatId, receiverId |-> ReceiverId,
                              text |-> Trim(p.messageText),
                              mediaURL |-> r.data[1].url[1],
                              mediaType |-> "image"] >>
          /\ sent[p.id] = 0 /\ sent'[p.id] = 1
          /\ alerted' = <<>>
          /\ mounted => /\ text' = <<>>
                        /\ selectedFile' = NoFile
                        /\ selectedImage' = NoImage ]_vars

C3_Witness ==
  /\ mounted
  /\ last.op = "uploadSettled"
  /\ delivered = << [chatId |-> ChatId, receiverId |-> ReceiverId,
                     text |-> <<"h", " ", "i">>,
                     mediaURL |-> "http://x/y.png", mediaType |-> "image"] >>
  /\ sent[last.arg] = 1
  /\ text = <<>> /\ selectedFile = NoFile /\ selectedImage = NoImage

\* C4: a submit with empty or whitespace-only text and no file selected
\* calls onSendMessage not at all, starts no upload, shows no alert and
\* leaves text, selected file, preview and uploading unchanged.
C4_EmptySendNoOp ==
  [][ ( /\ \A i \in 1 .. Len(text) : text[i] \in WhiteSpace
        /\ selectedFile = NoFile
        /\ HandleSubmit ) =>
          /\ sent' = Append(sent, 0)
          /\ delivered' = <<>>
          /\ pending' = pending
          /\ alerted' = <<>>
          /\ UNCHANGED << text, selectedFile, selectedImage, uploading, urls >> ]_vars

C4_Witness ==
  /\ last.op = "submit"
  /\ text = <<" ">>
  /\ selectedFile = NoFile
  /\ sent[last.arg] = 0
  /\ delivered = <<>>
  /\ props.onSendMessage

\* C5: selecting a file of more than 5 MiB, of any type and over any
\* earlier selection, leaves the selected file and the preview unchanged,
\* creates no object URL and shows the size message.
C5_OversizeRejected ==
  [][ \A f \in Files :
        (f.size > FiveMiB /\ HandleImageSelect(f)) =>
          /\ UNCHANGED << selectedFile, selectedImage, urls >>
          /\ alerted' = << SizeMessage >> ]_vars

C5_Witness ==
  /\ last.op = "imageSelect"
  /\ last.file.size > FiveMiB
  /\ ~IsImageType(last.file.type)
  /\ alerted = << SizeMessage >>
  /\ selectedFile = FileA
  /\ Len(urls) = 1 /\ selectedImage = 1

\* C6 as stated: selecting a file whose type is not an image type, of any
\* size, leaves the selection unchanged and shows the type message.
C6_NonImageAlwaysTypeMessage ==
  [][ \A f \in Files :
        (~IsImageType(f.type) /\ HandleImageSelect(f)) =>
          /\ UNCHANGED << selectedFile, selectedImage, urls >>
          /\ alerted' = << TypeMessage >> ]_vars

\* C6 amended: selecting a file whose type is not an image type leaves the
\* selected file and the preview unchanged and shows exactly one message:
\* the type message when the file is at most 5 MiB, the size message when
\* it is larger.
C6_NonImageRejected ==
  [][ \A f \in Files :
        (~IsImageType(f.type) /\ HandleImageSelect(f)) =>
          /\ UNCHANGED << selectedFile, selectedImage, urls >>
          /\ alerted' = << IF f.size > FiveMiB THEN SizeMessage ELSE TypeMessage >> ]_vars

C6_Witness ==
  /\ last.op = "imageSelect"
  /\ last.file.size <= FiveMiB
  /\ last.file.type = ImageBare
  /\ alerted = << TypeMessage >>
  /\ selectedFile = FileB
  /\ Len(urls) = 1 /\ selectedImage = 1

\* C7: once the component is unmounted no typing timer is pending, and
\* onStopTyping is not called after the unmount.
C7_NoTimerAfterUnmount ==
  /\ ~mounted => timers = {}
  /\ ~(~mounted /\ last.op = "typingTimeout" /\ props.onStopTyping)

\* C8: an accepted selection leaves exactly the picked file selected, with
\* the object URL created for it as preview; every object URL other than
\* the current preview has been revoked, and after unmount every object
\* URL ever created has been.
C8_PreviewsReleased ==
  /\ (last.op = "imageSelect" /\ last.file # NoFile /\ alerted = <<>>) =>
       /\ selectedFile = last.file
       /\ selectedImage = Len(urls)
       /\ urls[selectedImage].file = last.file
       /\ urls[selectedImage].revoked = 0
  /\ \A h \in Handles :
       (~mounted \/ h # selectedImage) => urls[h].revoked >= 1

C8_Witness ==
  /\ ~mounted
  /\ attempts = 0
  /\ Len(urls) = 2
  /\ urls[1].file = FileA /\ urls[1].revoked = 1
  /\ urls[2].file = FileB /\ urls[2].revoked = 1

\* C9: while an upload call is outstanding the submit button is disabled;
\* at most one upload call is outstanding; no handleSend call calls
\* onSendMessage more than once.
C9_OneSendAtATime ==
  /\ Cardinality(pending) <= 1
  /\ (mounted /\ pending # {}) => SubmitDisabled
  /\ \A a \in 1 .. Len(sent) : sent[a] <= 1

C9_Witness ==
  /\ mounted
  /\ attempts = 2
  /\ Cardinality(pending) = 1
  /\ sent[1] = 1
  /\ Trim(text) # <<>>

\* C10: while the component is mounted, uploading is true exactly when an
\* upload call is outstanding, and it is false after the call has settled,
\* however it settled.
C10_UploadingIffOutstanding ==
  mounted =>
    /\ uploading <=> pending # {}
    /\ last.op = "uploadSettled" => ~uploading

C10_Witness ==
  /\ mounted
  /\ last.op = "uploadSettled"
  /\ alerted = << UploadFailedMessage >>
  /\ ~uploading
  /\ pending = {}

\* A response that reports success and carries a non-empty URL.
Succeeded(r) ==
  /\ r.success = Some(TRUE)
  /\ r.data # None
  /\ r.data[1].url # None
  /\ r.data[1].url # Some("")

IsTrimmed(t) == t = <<>> \/ (t[1] \notin WhiteSpace /\ t[Len(t)] \notin WhiteSpace)

\* C11: every payload given to onSendMessage has a non-empty trimmed text
\* or a non-empty mediaURL; it either comes from a send without upload and
\* has mediaURL and mediaType empty, or from a send whose upload call
\* succeeded, and then has the URL that call returned and mediaType
\* "image". A send whose upload did not succeed delivers no payload.
C11_PayloadWellFormed ==
  [][ delivered' # <<>> =>
        /\ Len(delivered') = 1
        /\ IsTrimmed(delivered'[1].text)
        /\ delivered'[1].text # <<>> \/ delivered'[1].mediaURL # ""
        /\ \/ /\ selectedFile = NoFile
              /\ HandleSubmit
              /\ delivered'[1].mediaURL = ""
              /\ delivered'[1].mediaType = ""
           \/ \E p \in pending : \E r \in Responses :
                /\ Succeeded(r)
                /\ HandleUploadSettled(p, Resolve(r))
                /\ delivered'[1].mediaURL = r.data[1].url[1]
                /\ delivered'[1].mediaType = "image" ]_vars

C11_Witness ==
  /\ last.op = "uploadSettled"
  /\ Len(delivered) = 1
  /\ delivered[1].text = <<>>
  /\ delivered[1].mediaURL = "http://x/y.png"
  /\ delivered[1].mediaType = "image"

\* C12: every text change calls onTyping once, whether or not a typing
\* timer is pending: after n text changes onTyping has been called n times.
C12_TypingPerChange ==
  props.onTyping => typingCalls = keys

C12_Witness ==
  /\ props.onTyping
  /\ last.op = "textChange"
  /\ burstKeys = 2
  /\ keys = 2 /\ typingCalls = 2
  /\ Cardinality(timers) = 1

\* C13: an upload call that resolves with a response lacking a true
\* success flag or a non-empty data.url (the data object may be missing)
\* is handled as a failure: one alert, no onSendMessage call, selected
\* file, preview and text kept, uploading cleared.
C13_MalformedIsFailure ==
  [][ \A p \in pending : \A r \in Responses :
        (~Succeeded(r) /\ HandleUploadSettled(p, Resolve(r))) =>
          /\ Len(alerted') = 1
          /\ sent' = sent
          /\ delivered' = <<>>
          /\ UNCHANGED << text, selectedFile, selectedImage, urls >>
          /\ mounted => ~uploading' ]_vars

C13_Witness ==
  /\ mounted
  /\ last.op = "uploadSettled"
  /\ alerted = << "no data" >>
  /\ selectedFile = last.file /\ selectedFile # NoFile
  /\ selectedImage # NoImage /\ urls[selectedImage].revoked = 0
  /\ ~uploading
  /\ sent[last.arg] = 0

\* C14: the selected file is set exactly when a preview is, and the
\* preview is the object URL that was created from the selected file.
C14_OneFilePreviewPair ==
  /\ selectedFile # NoFile <=> selectedImage # NoImage
  /\ selectedImage # NoImage =>
       /\ selectedImage \in Handles
       /\ urls[selectedImage].file = selectedFile

C14_Witness ==
  /\ Len(urls) = 2
  /\ urls[1].file = FileA
  /\ selectedFile = FileB /\ selectedImage = 2
  /\ uploading

\* C15: a picked file is accepted exactly when it is at most 5 MiB and of
\* an image type. An accepted file becomes the selected file, one object
\* URL is created for it and becomes the preview, no upload starts and no
\* alert is shown; a rejected file changes none of these and is alerted.
C15_AcceptedExactlyWhenValid ==
  [][ \A f \in Files :
        HandleImageSelect(f) =>
          IF f.size <= FiveMiB /\ IsImageType(f.type)
          THEN /\ selectedFile' = f
               /\ Len(urls') = Len(urls) + 1
               /\ urls'[Len(urls')] = [file |-> f, revoked |-> 0]
               /\ selectedImage' = Len(urls')
               /\ alerted' = <<>>
               /\ UNCHANGED << pending, uploading, attempts >>
          ELSE /\ Len(alerted') = 1
               /\ UNCHANGED << selectedFile, selectedImage, urls, pending, uploading >> ]_vars

C15_Witness ==
  /\ last.op = "imageSelect"
  /\ last.file.size = FiveMiB
  /\ IsImageType(last.file.type)
  /\ selectedFile = last.file
  /\ Len(urls) = 1 /\ selectedImage = 1
  /\ alerted = <<>>
  /\ pending = {} /\ ~uploading

\* C16: a failed send shows exactly one alert. Its text is, for a rejected
\* call, the error's response.data.message when that is present, else the
\* error's message, else the generic text; for a response that is not ok,
\* the response's message, or "Upload failed" when it has none.
C16_Expected(o) ==
  IF o.kind = "reject"
  THEN IF /\ o.value.response # None
          /\ o.value.response[1].data # None
          /\ o.value.response[1].data[1].message \notin {None, Some("")}
       THEN o.value.response[1].data[1].message[1]
       ELSE IF o.value.message # "" THEN o.value.message
       ELSE GenericMessage
  ELSE IF o.value.message \notin {None, Some("")}
       THEN o.value.message[1]
       ELSE "Upload failed"

C16_ErrorTextByPreference ==
  [][ \A p \in pending : \A o \in Outcomes :
        ( /\ o.kind = "resolve" => ~Succeeded(o.value)
          /\ HandleUploadSettled(p, o) ) =>
          alerted' = << C16_Expected(o) >> ]_vars

C16_Witness ==
  /\ last.op = "uploadSettled"
  /\ alerted = << "quota exceeded" >>
  /\ sent[last.arg] = 0

\* C17: no object URL is revoked more than once, whatever the sequence of
\* selections, removals, sends and unmount.
C17_RevokedAtMostOnce ==
  \A h \in Handles : urls[h].revoked <= 1

\* C18: whenever a payload with a non-empty mediaURL is delivered, the
\* file it was uploaded from is still the selected file at delivery; so
\* removing the image during its upload keeps its URL from being sent.
C18_DeliveredFileStillSelected ==
  [][ \A p \in pending : \A o \in Outcomes :
        ( /\ mounted
          /\ HandleUploadSettled(p, o)
          /\ delivered' # <<>>
          /\ delivered'[1].mediaURL # "" ) =>
          selectedFile = p.file ]_vars

\* C19: when a send with an upload succeeds, the payload carries the text
\* as it was at submission, and text changed during the upload is the
\* draft after the delivery.
C19_TypedDuringUploadKept ==
  [][ \A p \in pending : \A r \in Responses :
        ( /\ mounted
          /\ props.onSendMessage
          /\ Succeeded(r)
          /\ HandleUploadSettled(p, Resolve(r)) ) =>
          /\ Len(delivered') = 1
          /\ delivered'[1].text = Trim(p.messageText)
          /\ text # p.messageText => text' = text ]_vars

====
